---- MODULE Spec2Model ----
(***************************************************************************)
(* Model of the thermal/fluid network simulator of                         *)
(* src/src/simulation/mod.rs: Simulation (nodes, connections, solar        *)
(* panels), its graph-building API, tick with its three passes, the        *)
(* IterConnections iterator and the Fluid combination operator.            *)
(*                                                                         *)
(* f32 values are modelled as exact rationals [n |-> numerator,            *)
(* d |-> denominator > 0] in lowest terms; node ids are 0-based as in the  *)
(* source, sequences are 1-based, so the node with id i is nodes[i + 1].   *)
(***************************************************************************)
EXTENDS Integers, Sequences, FiniteSets, TLC

VARIABLES nodes, connections, solar_panels, iter, collected, call, ret, panicked, ticks

vars == <<nodes, connections, solar_panels, iter, collected, call, ret, panicked, ticks>>

sim == <<nodes, connections, solar_panels>>

(* ------------------------------ bounds --------------------------------- *)

MaxNodes == 2

MaxConns == 2

MaxTicks == 1

(* --------------------------- rational numbers -------------------------- *)

Abs(x) == IF x < 0 THEN -x ELSE x

RECURSIVE GCD(_, _)
GCD(a, b) == IF b = 0 THEN a ELSE GCD(b, a % b)

Norm(n, d) ==
    LET g == GCD(Abs(n), Abs(d))
        s == IF d < 0 THEN -1 ELSE 1
    IN  [n |-> s * (n \div g), d |-> s * (d \div g)]

R(n, d) == Norm(n, d)

Z(n) == [n |-> n, d |-> 1]

\* a/b.d and b/a.d are cancelled before multiplying, to keep the integers small
RAdd(a, b) ==
    LET g == GCD(a.d, b.d)
    IN  Norm(a.n * (b.d \div g) + b.n * (a.d \div g), (a.d \div g) * b.d)

RNeg(a) == [n |-> -a.n, d |-> a.d]

RSub(a, b) == RAdd(a, RNeg(b))

RMul(a, b) ==
    LET g1 == GCD(Abs(a.n), b.d)
        g2 == GCD(Abs(b.n), a.d)
    IN  Norm((a.n \div g1) * (b.n \div g2), (a.d \div g2) * (b.d \div g1))

RInv(a) == IF a.n < 0 THEN [n |-> -a.d, d |-> -a.n] ELSE [n |-> a.d, d |-> a.n]

RDiv(a, b) == RMul(a, RInv(b))

RLt(a, b) == RSub(a, b).n < 0

RLe(a, b) == RSub(a, b).n <= 0

RMin(a, b) == IF RLe(a, b) THEN a ELSE b

RMax(a, b) == IF RLe(a, b) THEN b ELSE a

(* ------------------------------ inputs --------------------------------- *)

\* (volume, temp, insulation, capacity, position) tuples given to add_node:
\* the node of tests::test_fluid_transfer and an empty, badly insulated one
NodeInputs ==
    { [volume |-> Z(10), temp |-> Z(100), insulation |-> Z(1),     capacity |-> Z(100), position |-> <<0, 0, 0>>],
      [volume |-> Z(0),  temp |-> Z(50),  insulation |-> R(9, 10), capacity |-> Z(10),  position |-> <<1, 0, 0>>] }

\* node ids handed to connect_node / attach_solar_panel; MaxNodes is never valid
Ids == 0 .. MaxNodes

\* (input, output, flow_rate) triples given to connect_node: every pair of
\* ids, with a flow rate that differs between connections leaving different nodes
ConnectInputs == { <<input, output, Z(input + 1)>> : input \in Ids, output \in Ids }

Panels == { [area |-> Z(1), efficiency |-> R(1, 2)],
            [area |-> Z(2), efficiency |-> Z(1)] }

\* sun_angle is one of -pi/2, 0, pi/2; Sin gives its sine
SunAngles == { "-pi/2", "0", "pi/2" }

Sin(angle) ==
    CASE angle = "-pi/2" -> Z(-1)
      [] angle = "0"     -> Z(0)
      [] angle = "pi/2"  -> Z(1)

Environments ==
    { [sun_angle |-> "pi/2",  sun_irradiance |-> Z(2093), cloud_cover |-> Z(0),    ambient_temp |-> Z(20)],
      [sun_angle |-> "-pi/2", sun_irradiance |-> Z(2093), cloud_cover |-> R(1, 2), ambient_temp |-> Z(20)] }

Dts == { R(1, 2) }

(* ------------------------------- state --------------------------------- *)

\* what the last call returned: (), a node id, the iterator, or an Option
Unit == [unit |-> TRUE]

Id(i) == [id |-> i]

IterConnections == [iterator |-> TRUE]

None == [some |-> FALSE]

Some(v) == [some |-> TRUE, val |-> v]

NoIter == [live |-> FALSE, index |-> 0, calls |-> 0, done |-> FALSE]

Init ==
    /\ nodes = << >>
    /\ connections = << >>
    /\ solar_panels = << >>
    /\ iter = NoIter
    /\ collected = << >>
    /\ call = [op |-> "new"]
    /\ ret = Unit
    /\ panicked = FALSE
    /\ ticks = 0

(* ------------------------- graph-building API -------------------------- *)

\* contains_node off by one
contains_node_le(ns, id) == id <= Len(ns)

contains_node(ns, id) == id < Len(ns)

NodeAt(ns, id) == ns[id + 1]

Node(volume, temp, insulation, capacity, position) ==
    [fluid |-> [volume |-> volume, temp |-> temp],
     insulation |-> insulation, capacity |-> capacity, position |-> position]

Connection(flow_rate, input, output) ==
    [flow_rate |-> flow_rate, input |-> input, output |-> output]

Insert(map, key, value) ==
    [k \in (DOMAIN map) \cup {key} |-> IF k = key THEN value ELSE map[k]]

Borrowed == iter.live

get_node(ns, node) == IF node < Len(ns) THEN Some(ns[node + 1]) ELSE None

\* add_node returning the length after the push
add_node_after(volume, temp, insulation, capacity, position) ==
    /\ ~panicked /\ ~Borrowed
    /\ Len(nodes) < MaxNodes
    /\ nodes' = Append(nodes, Node(volume, temp, insulation, capacity, position))
    /\ ret' = Id(Len(nodes'))
    /\ UNCHANGED <<connections, solar_panels, iter, collected, panicked, ticks>>

add_node(volume, temp, insulation, capacity, position) ==
    /\ ~panicked /\ ~Borrowed
    /\ Len(nodes) < MaxNodes
    /\ LET i == Len(nodes)
       IN  /\ nodes' = Append(nodes, Node(volume, temp, insulation, capacity, position))
           /\ ret' = Id(i)
    /\ UNCHANGED <<connections, solar_panels, iter, collected, panicked, ticks>>

\* connect_node accepting the pair when either id is a node index
connect_node_or(input, output, flow_rate) ==
    /\ ~panicked /\ ~Borrowed
    /\ Len(connections) < MaxConns
    /\ IF input < Len(nodes) \/ output < Len(nodes)
       THEN connections' = Append(connections, Connection(flow_rate, input, output))
       ELSE connections' = connections
    /\ ret' = Unit
    /\ UNCHANGED <<nodes, solar_panels, iter, collected, panicked, ticks>>

\* connect_node storing the two ids in each other's field
connect_node_swapped(input, output, flow_rate) ==
    /\ ~panicked /\ ~Borrowed
    /\ Len(connections) < MaxConns
    /\ IF input < Len(nodes) /\ output < Len(nodes)
       THEN connections' = Append(connections, Connection(flow_rate, output, input))
       ELSE connections' = connections
    /\ ret' = Unit
    /\ UNCHANGED <<nodes, solar_panels, iter, collected, panicked, ticks>>

\* connect_node inserting the connection at the front
connect_node_front(input, output, flow_rate) ==
    /\ ~panicked /\ ~Borrowed
    /\ Len(connections) < MaxConns
    /\ IF input < Len(nodes) /\ output < Len(nodes)
       THEN connections' = <<Connection(flow_rate, input, output)>> \o connections
       ELSE connections' = connections
    /\ ret' = Unit
    /\ UNCHANGED <<nodes, solar_panels, iter, collected, panicked, ticks>>

connect_node(input, output, flow_rate) ==
    /\ ~panicked /\ ~Borrowed
    /\ Len(connections) < MaxConns
    /\ IF input < Len(nodes) /\ output < Len(nodes)
       THEN connections' = Append(connections, Connection(flow_rate, input, output))
       ELSE connections' = connections
    /\ ret' = Unit
    /\ UNCHANGED <<nodes, solar_panels, iter, collected, panicked, ticks>>

\* attach_solar_panel without the contains_node test
attach_solar_panel_unchecked(id, panel) ==
    /\ ~panicked /\ ~Borrowed
    /\ solar_panels' = Insert(solar_panels, id, panel)
    /\ ret' = Unit
    /\ UNCHANGED <<nodes, connections, iter, collected, panicked, ticks>>

\* attach_solar_panel keeping a panel that is already attached
attach_solar_panel_keep(id, panel) ==
    /\ ~panicked /\ ~Borrowed
    /\ IF contains_node(nodes, id) /\ id \notin DOMAIN solar_panels
       THEN solar_panels' = Insert(solar_panels, id, panel)
       ELSE solar_panels' = solar_panels
    /\ ret' = Unit
    /\ UNCHANGED <<nodes, connections, iter, collected, panicked, ticks>>

attach_solar_panel(id, panel) ==
    /\ ~panicked /\ ~Borrowed
    /\ IF contains_node(nodes, id)
       THEN solar_panels' = Insert(solar_panels, id, panel)
       ELSE solar_panels' = solar_panels
    /\ ret' = Unit
    /\ UNCHANGED <<nodes, connections, iter, collected, panicked, ticks>>

(* --------------------------- Fluid combination ------------------------- *)


\* the combination taking the temperature of the added fluid
FluidAdd_replace(self, rhs) ==
    LET volume == RAdd(self.volume, rhs.volume)
        temp == IF volume = Z(0) THEN Z(0) ELSE rhs.temp
    IN  [volume |-> volume, temp |-> temp]


\* the combination dividing by the resulting volume whatever it is: x / 0
\* is an infinite or undefined f32, written here as the fraction 1/0
FluidAdd_unguarded(self, rhs) ==
    LET volume == RAdd(self.volume, rhs.volume)
        temp == IF volume = Z(0)
                THEN [n |-> 1, d |-> 0]
                ELSE RAdd(RDiv(RMul(self.temp, self.volume), volume),
                          RDiv(RMul(rhs.temp, rhs.volume), volume))
    IN  [volume |-> volume, temp |-> temp]

\* the combination averaging the two temperatures without their volumes
FluidAdd_unweighted(self, rhs) ==
    LET volume == RAdd(self.volume, rhs.volume)
        temp == IF volume = Z(0)
                THEN Z(0)
                ELSE RDiv(RAdd(self.temp, rhs.temp), Z(2))
    IN  [volume |-> volume, temp |-> temp]

\* the combination keeping the temperature it had when the resulting
\* volume is zero
FluidAdd_keep(self, rhs) ==
    LET volume == RAdd(self.volume, rhs.volume)
        temp == IF volume = Z(0)
                THEN self.temp
                ELSE RAdd(RDiv(RMul(self.temp, self.volume), volume),
                          RDiv(RMul(rhs.temp, rhs.volume), volume))
    IN  [volume |-> volume, temp |-> temp]

FluidAdd(self, rhs) ==
    LET volume == RAdd(self.volume, rhs.volume)
        temp == IF volume = Z(0)
                THEN Z(0)
                ELSE RAdd(RDiv(RMul(self.temp, self.volume), volume),
                          RDiv(RMul(rhs.temp, rhs.volume), volume))
    IN  [volume |-> volume, temp |-> temp]

(* -------------------------------- tick --------------------------------- *)


\* the heat-loss step with the sign of the correction reversed
HeatLossNode_plus(node, environment, dt) ==
    LET temp_diff == RSub(node.fluid.temp, environment.ambient_temp)
    IN  [node EXCEPT !.fluid.temp =
            RAdd(node.fluid.temp,
                 RMul(RMul(temp_diff, RSub(Z(1), node.insulation)), dt))]

\* the heat-loss step writing its correction to the volume
HeatLossNode_volume(node, environment, dt) ==
    LET temp_diff == RSub(node.fluid.temp, environment.ambient_temp)
    IN  [node EXCEPT !.fluid.volume =
            RSub(node.fluid.volume,
                 RMul(RMul(temp_diff, RSub(Z(1), node.insulation)), dt))]

\* the heat-loss step stopping at the ambient temperature
HeatLossNode_clamped(node, environment, dt) ==
    LET temp_diff == RSub(node.fluid.temp, environment.ambient_temp)
        stepped == RSub(node.fluid.temp,
                        RMul(RMul(temp_diff, RSub(Z(1), node.insulation)), dt))
    IN  [node EXCEPT !.fluid.temp =
            IF RLt(Z(0), temp_diff)
            THEN RMax(stepped, environment.ambient_temp)
            ELSE RMin(stepped, environment.ambient_temp)]

HeatLossNode(node, environment, dt) ==
    LET temp_diff == RSub(node.fluid.temp, environment.ambient_temp)
    IN  [node EXCEPT !.fluid.temp =
            RSub(node.fluid.temp,
                 RMul(RMul(temp_diff, RSub(Z(1), node.insulation)), dt))]

handle_heat_losses(ns, environment, dt) ==
    [i \in 1 .. Len(ns) |-> HeatLossNode(ns[i], environment, dt)]

\* J / (g deg C)
SpecificHeat == R(4186, 1000)

Density == Z(1)


\* the panel step without the zero-volume skip: q / (0 * c) is an infinite
\* or undefined f32, written here as the fraction 1/0
SolarNode_noskip(node, panel, environment, dt) ==
    IF node.fluid.volume = Z(0)
    THEN [node EXCEPT !.fluid.temp = [n |-> 1, d |-> 0]]
    ELSE LET q == RMul(RMul(RMul(RMul(RMul(environment.sun_irradiance,
                                             RMax(Sin(environment.sun_angle), Z(0))),
                                        RSub(Z(1), environment.cloud_cover)),
                                   panel.area),
                              dt),
                         panel.efficiency)
             m == RMul(node.fluid.volume, Density)
             d_temp == RDiv(q, RMul(m, SpecificHeat))
         IN  [node EXCEPT !.fluid.temp = RAdd(node.fluid.temp, d_temp)]

\* the panel step without the clamp of the sine at zero
SolarNode_unclamped(node, panel, environment, dt) ==
    IF node.fluid.volume = Z(0)
    THEN node
    ELSE LET q == RMul(RMul(RMul(RMul(RMul(environment.sun_irradiance,
                                             Sin(environment.sun_angle)),
                                        RSub(Z(1), environment.cloud_cover)),
                                   panel.area),
                              dt),
                         panel.efficiency)
             m == RMul(node.fluid.volume, Density)
             d_temp == RDiv(q, RMul(m, SpecificHeat))
         IN  [node EXCEPT !.fluid.temp = RAdd(node.fluid.temp, d_temp)]

SolarNode(node, panel, environment, dt) ==
    IF node.fluid.volume = Z(0)
    THEN node
    ELSE LET q == RMul(RMul(RMul(RMul(RMul(environment.sun_irradiance,
                                             RMax(Sin(environment.sun_angle), Z(0))),
                                        RSub(Z(1), environment.cloud_cover)),
                                   panel.area),
                              dt),
                         panel.efficiency)
             m == RMul(node.fluid.volume, Density)
             d_temp == RDiv(q, RMul(m, SpecificHeat))
         IN  [node EXCEPT !.fluid.temp = RAdd(node.fluid.temp, d_temp)]

\* the iteration orders a HashMap with these keys can produce
Orders(map) ==
    { o \in [1 .. Cardinality(DOMAIN map) -> DOMAIN map] :
        \A i, j \in DOMAIN o : i # j => o[i] # o[j] }


\* the pass heating, for the i-th panel visited, the i-th node instead of
\* the node the panel is attached to
RECURSIVE handle_solar_panels_by_position(_, _, _, _, _)
handle_solar_panels_by_position(ns, map, order, environment, dt) ==
    IF order = << >>
    THEN [nodes |-> ns, panicked |-> FALSE]
    ELSE LET key == Head(order)
             at == Cardinality(DOMAIN map) - Len(order)
         IN  IF ~(key < Len(ns))
             THEN [nodes |-> ns, panicked |-> TRUE]
             ELSE handle_solar_panels_by_position(
                      [ns EXCEPT ![at + 1] = SolarNode(ns[at + 1], map[key], environment, dt)],
                      map, Tail(order), environment, dt)

\* result of the pass over the panels in the given order; indexing
\* self.nodes[*node] with a key that is not a node index panics
RECURSIVE handle_solar_panels(_, _, _, _, _)
handle_solar_panels(ns, map, order, environment, dt) ==
    IF order = << >>
    THEN [nodes |-> ns, panicked |-> FALSE]
    ELSE LET key == Head(order)
         IN  IF ~(key < Len(ns))
             THEN [nodes |-> ns, panicked |-> TRUE]
             ELSE handle_solar_panels(
                      [ns EXCEPT ![key + 1] = SolarNode(ns[key + 1], map[key], environment, dt)],
                      map, Tail(order), environment, dt)


\* the transfer of one connection that adds to the output node without
\* taking the amount from the input node
TransferOne_keep(ns, connection, dt) ==
    IF \/ ~contains_node(ns, connection.input)
       \/ ~contains_node(ns, connection.output)
       \/ connection.input = connection.output
    THEN ns
    ELSE LET amount_available == RMin(connection.flow_rate, NodeAt(ns, connection.input).fluid.volume)
             space_available == RSub(NodeAt(ns, connection.output).capacity,
                                     NodeAt(ns, connection.output).fluid.volume)
             amount_transfered == RMin(RMul(amount_available, dt), space_available)
             fluid_transferred == [temp |-> NodeAt(ns, connection.input).fluid.temp,
                                   volume |-> amount_transfered]
         IN  [ns EXCEPT ![connection.output + 1].fluid = FluidAdd(@, fluid_transferred)]


\* the transfer of one connection with the multiplication by dt left out
TransferOne_undamped(ns, connection, dt) ==
    IF \/ ~contains_node(ns, connection.input)
       \/ ~contains_node(ns, connection.output)
       \/ connection.input = connection.output
    THEN ns
    ELSE LET amount_available == RMin(connection.flow_rate, NodeAt(ns, connection.input).fluid.volume)
             space_available == RSub(NodeAt(ns, connection.output).capacity,
                                     NodeAt(ns, connection.output).fluid.volume)
             amount_transfered == RMin(amount_available, space_available)
             ns1 == [ns EXCEPT ![connection.input + 1].fluid.volume = RSub(@, amount_transfered)]
             fluid_transferred == [temp |-> NodeAt(ns1, connection.input).fluid.temp,
                                   volume |-> amount_transfered]
         IN  [ns1 EXCEPT ![connection.output + 1].fluid = FluidAdd(@, fluid_transferred)]

\* the transfer of one connection with the input volume capping the amount
\* after the multiplication by dt
TransferOne_late_cap(ns, connection, dt) ==
    IF \/ ~contains_node(ns, connection.input)
       \/ ~contains_node(ns, connection.output)
       \/ connection.input = connection.output
    THEN ns
    ELSE LET amount_available == RMin(RMul(connection.flow_rate, dt),
                                      NodeAt(ns, connection.input).fluid.volume)
             space_available == RSub(NodeAt(ns, connection.output).capacity,
                                     NodeAt(ns, connection.output).fluid.volume)
             amount_transfered == RMin(amount_available, space_available)
             ns1 == [ns EXCEPT ![connection.input + 1].fluid.volume = RSub(@, amount_transfered)]
             fluid_transferred == [temp |-> NodeAt(ns1, connection.input).fluid.temp,
                                   volume |-> amount_transfered]
         IN  [ns1 EXCEPT ![connection.output + 1].fluid = FluidAdd(@, fluid_transferred)]


\* the transfer of one connection without the self-loop test
TransferOne_loops(ns, connection, dt) ==
    IF \/ ~contains_node(ns, connection.input)
       \/ ~contains_node(ns, connection.output)
    THEN ns
    ELSE LET amount_available == RMin(connection.flow_rate, NodeAt(ns, connection.input).fluid.volume)
             space_available == RSub(NodeAt(ns, connection.output).capacity,
                                     NodeAt(ns, connection.output).fluid.volume)
             amount_transfered == RMin(RMul(amount_available, dt), space_available)
             ns1 == [ns EXCEPT ![connection.input + 1].fluid.volume = RSub(@, amount_transfered)]
             fluid_transferred == [temp |-> NodeAt(ns1, connection.input).fluid.temp,
                                   volume |-> amount_transfered]
         IN  [ns1 EXCEPT ![connection.output + 1].fluid = FluidAdd(@, fluid_transferred)]

\* the transfer of one connection resetting the temperature of an input
\* node it has emptied
TransferOne_reset_drained(ns, connection, dt) ==
    IF \/ ~contains_node(ns, connection.input)
       \/ ~contains_node(ns, connection.output)
       \/ connection.input = connection.output
    THEN ns
    ELSE LET amount_available == RMin(connection.flow_rate, NodeAt(ns, connection.input).fluid.volume)
             space_available == RSub(NodeAt(ns, connection.output).capacity,
                                     NodeAt(ns, connection.output).fluid.volume)
             amount_transfered == RMin(RMul(amount_available, dt), space_available)
             ns1 == [ns EXCEPT ![connection.input + 1].fluid.volume = RSub(@, amount_transfered)]
             fluid_transferred == [temp |-> NodeAt(ns1, connection.input).fluid.temp,
                                   volume |-> amount_transfered]
             ns2 == [ns1 EXCEPT ![connection.output + 1].fluid = FluidAdd(@, fluid_transferred)]
         IN  IF NodeAt(ns2, connection.input).fluid.volume = Z(0)
             THEN [ns2 EXCEPT ![connection.input + 1].fluid.temp = Z(0)]
             ELSE ns2

TransferOne(ns, connection, dt) ==
    IF \/ ~contains_node(ns, connection.input)
       \/ ~contains_node(ns, connection.output)
       \/ connection.input = connection.output
    THEN ns
    ELSE LET amount_available == RMin(connection.flow_rate, NodeAt(ns, connection.input).fluid.volume)
             space_available == RSub(NodeAt(ns, connection.output).capacity,
                                     NodeAt(ns, connection.output).fluid.volume)
             amount_transfered == RMin(RMul(amount_available, dt), space_available)
             ns1 == [ns EXCEPT ![connection.input + 1].fluid.volume = RSub(@, amount_transfered)]
             fluid_transferred == [temp |-> NodeAt(ns1, connection.input).fluid.temp,
                                   volume |-> amount_transfered]
         IN  [ns1 EXCEPT ![connection.output + 1].fluid = FluidAdd(@, fluid_transferred)]


\* the pass visiting the connections by ascending input and output index
\* instead of insertion order
RECURSIVE handle_fluid_transfer_sorted(_, _, _)
handle_fluid_transfer_sorted(ns, conns, dt) ==
    IF conns = << >>
    THEN ns
    ELSE LET Key(c) == c.input * 10 + c.output
             i == CHOOSE i \in 1 .. Len(conns) :
                      \A j \in 1 .. Len(conns) :
                          \/ Key(conns[i]) < Key(conns[j])
                          \/ (Key(conns[i]) = Key(conns[j]) /\ i <= j)
         IN  handle_fluid_transfer_sorted(
                 TransferOne(ns, conns[i], dt),
                 SubSeq(conns, 1, i - 1) \o SubSeq(conns, i + 1, Len(conns)), dt)

\* the pass visiting the connections from the last inserted to the first
RECURSIVE handle_fluid_transfer_reversed(_, _, _)
handle_fluid_transfer_reversed(ns, conns, dt) ==
    IF conns = << >>
    THEN ns
    ELSE handle_fluid_transfer_reversed(
             TransferOne(ns, conns[Len(conns)], dt), SubSeq(conns, 1, Len(conns) - 1), dt)

RECURSIVE handle_fluid_transfer(_, _, _)
handle_fluid_transfer(ns, conns, dt) ==
    IF conns = << >>
    THEN ns
    ELSE handle_fluid_transfer(TransferOne(ns, Head(conns), dt), Tail(conns), dt)


\* the tick with the solar pass run before the heat-loss pass
TickResult_solar_first(ns, conns, map, order, environment, dt) ==
    LET solar == handle_solar_panels(ns, map, order, environment, dt)
    IN  IF solar.panicked
        THEN solar
        ELSE [nodes |-> handle_fluid_transfer(
                            handle_heat_losses(solar.nodes, environment, dt), conns, dt),
              panicked |-> FALSE]

TickResult(ns, conns, map, order, environment, dt) ==
    LET afterLoss == handle_heat_losses(ns, environment, dt)
        solar == handle_solar_panels(afterLoss, map, order, environment, dt)
    IN  IF solar.panicked
        THEN solar
        ELSE [nodes |-> handle_fluid_transfer(solar.nodes, conns, dt), panicked |-> FALSE]

tick(environment, dt, order) ==
    /\ ~panicked /\ ~Borrowed
    /\ ticks < MaxTicks
    /\ LET r == TickResult(nodes, connections, solar_panels, order, environment, dt)
       IN  /\ nodes' = r.nodes
           /\ panicked' = r.panicked
    /\ ticks' = ticks + 1
    /\ ret' = Unit
    /\ UNCHANGED <<connections, solar_panels, iter, collected>>

(* --------------------------- connected_nodes --------------------------- *)

\* a shared reference to the node stored at an index
Ref(ns, id) == [at |-> id, node |-> NodeAt(ns, id)]

connected_nodes ==
    /\ ~panicked /\ ~Borrowed
    /\ iter' = [live |-> TRUE, index |-> 0, calls |-> 0, done |-> FALSE]
    /\ collected' = << >>
    /\ ret' = IterConnections
    /\ UNCHANGED <<nodes, connections, solar_panels, panicked, ticks>>

\* the loop building the triple from the output node first
RECURSIVE NextLoop_swapped(_, _, _, _)
NextLoop_swapped(ns, conns, index, out) ==
    IF index < Len(conns)
    THEN LET connection == conns[index + 1]
             out1 == IF Len(ns) > connection.input /\ Len(ns) > connection.output
                     THEN Some([flow_rate |-> connection.flow_rate,
                                input |-> Ref(ns, connection.output),
                                output |-> Ref(ns, connection.input)])
                     ELSE out
         IN  NextLoop_swapped(ns, conns, index + 1, out1)
    ELSE [index |-> index, out |-> out]

\* the while loop of IterConnections::next, from the given index and out
RECURSIVE NextLoop(_, _, _, _)
NextLoop(ns, conns, index, out) ==
    IF index < Len(conns)
    THEN LET connection == conns[index + 1]
             out1 == IF Len(ns) > connection.input /\ Len(ns) > connection.output
                     THEN Some([flow_rate |-> connection.flow_rate,
                                input |-> Ref(ns, connection.input),
                                output |-> Ref(ns, connection.output)])
                     ELSE out
         IN  NextLoop(ns, conns, index + 1, out1)
    ELSE [index |-> index, out |-> out]

\* next losing the advanced index
IterNext_stuck ==
    /\ ~panicked /\ iter.live
    /\ LET r == NextLoop(nodes, connections, iter.index, None)
       IN  /\ iter' = [iter EXCEPT !.calls = IF iter.done THEN @ ELSE @ + 1,
                                   !.done = iter.done \/ ~r.out.some]
           /\ ret' = r.out
           /\ collected' = IF r.out.some THEN Append(collected, r.out.val) ELSE collected
    /\ UNCHANGED <<nodes, connections, solar_panels, panicked, ticks>>

\* calls counts the calls of next up to and including the first that returns
\* None (done); later calls are not counted, which keeps the counter bounded
IterNext ==
    /\ ~panicked /\ iter.live
    /\ LET r == NextLoop(nodes, connections, iter.index, None)
       IN  /\ iter' = [iter EXCEPT !.index = r.index,
                                   !.calls = IF iter.done THEN @ ELSE @ + 1,
                                   !.done = iter.done \/ ~r.out.some]
           /\ ret' = r.out
           /\ collected' = IF r.out.some THEN Append(collected, r.out.val) ELSE collected
    /\ UNCHANGED <<nodes, connections, solar_panels, panicked, ticks>>

DropIter ==
    /\ ~panicked /\ iter.live
    /\ iter' = NoIter
    /\ collected' = << >>
    /\ ret' = Unit
    /\ UNCHANGED <<nodes, connections, solar_panels, panicked, ticks>>

(* ---------------------------- specification ---------------------------- *)

\* call records which operation ran last, whether the ids it was given were
\* node indices when it was called, and whether a panel was already attached

InRange(id) == id \in 0 .. Len(nodes) - 1

AddNodeStep ==
    \E a \in NodeInputs :
        /\ add_node(a.volume, a.temp, a.insulation, a.capacity, a.position)
        /\ call' = [op |-> "add_node"]

ConnectNodeStep ==
    \E c \in ConnectInputs :
        /\ connect_node(c[1], c[2], c[3])
        /\ call' = [op |-> "connect_node", in_range |-> InRange(c[1]) /\ InRange(c[2])]

AttachSolarPanelStep ==
    \E id \in Ids, panel \in Panels :
        /\ attach_solar_panel(id, panel)
        /\ call' = [op |-> "attach_solar_panel", in_range |-> InRange(id),
                     replaced |-> id \in DOMAIN solar_panels]

TickStep ==
    \E environment \in Environments, dt \in Dts, order \in Orders(solar_panels) :
        /\ tick(environment, dt, order)
        /\ call' = [op |-> "tick"]

ConnectedNodesStep == connected_nodes /\ call' = [op |-> "connected_nodes"]

IterNextStep == IterNext /\ call' = [op |-> "next"]

DropIterStep == DropIter /\ call' = [op |-> "drop"]

Next ==
    \/ AddNodeStep
    \/ ConnectNodeStep
    \/ AttachSolarPanelStep
    \/ TickStep

Spec == Init /\ [][Next]_vars

\* the visualization layer's use: build, tick, and traverse connected_nodes()
NextConn ==
    \/ AddNodeStep
    \/ ConnectNodeStep
    \/ TickStep

SpecConn == Init /\ [][NextConn]_vars

NextPanel ==
    \/ AddNodeStep
    \/ AttachSolarPanelStep
    \/ TickStep

SpecPanel == Init /\ [][NextPanel]_vars

NextIter ==
    \/ AddNodeStep
    \/ ConnectNodeStep
    \/ TickStep
    \/ ConnectedNodesStep
    \/ IterNextStep
    \/ DropIterStep

SpecIter == Init /\ [][NextIter]_vars

TypeOK ==
    /\ Len(nodes) <= MaxNodes
    /\ Len(connections) <= MaxConns
    /\ ticks \in 0 .. MaxTicks
    /\ panicked \in BOOLEAN
    /\ iter.index \in 0 .. MaxConns
    /\ iter.calls \in 0 .. MaxConns + 1

(* ------------------------------- claims -------------------------------- *)

Last(seq) == seq[Len(seq)]

Front(seq, n) == SubSeq(seq, 1, n)

\* C1: connect_node called with an input or output that is not a node index
\* leaves the connections, the nodes and the panel map as they were, and
\* returns normally (no panic, unit result).
C1_ConnectOutOfRangeIsNoOp ==
    [][(call'.op = "connect_node" /\ ~call'.in_range)
        => /\ connections' = connections
           /\ nodes' = nodes
           /\ solar_panels' = solar_panels
           /\ ~panicked'
           /\ ret' = Unit]_vars

C1_Witness ==
    /\ call.op = "connect_node" /\ ~call.in_range
    /\ Len(nodes) = 2
    /\ Len(connections) = 1

\* C2: connect_node called with two node indices appends exactly the
\* connection (input, output, flow_rate) at the end, self-loops included, and
\* leaves the earlier connections and the nodes as they were.
C2_ConnectAppendsOne ==
    [][\A c \in ConnectInputs :
          (connect_node(c[1], c[2], c[3]) /\ c[1] < Len(nodes) /\ c[2] < Len(nodes))
          => /\ Len(connections') = Len(connections) + 1
             /\ Last(connections') = [flow_rate |-> c[3], input |-> c[1], output |-> c[2]]
             /\ Front(connections', Len(connections)) = connections
             /\ nodes' = nodes]_vars

C2_Witness ==
    /\ call.op = "connect_node" /\ call.in_range
    /\ Len(connections) = 2
    /\ connections[1].input # connections[1].output
    /\ connections[2].input = connections[2].output

\* C3: add_node returns the node count before the call; afterwards get_node of
\* the returned id is the node with exactly the given volume, temp,
\* insulation, capacity and position, the node count has grown by one, and the
\* earlier nodes, the connections and the panels are as they were.
C3_AddNodeAppends ==
    [][\A a \in NodeInputs :
          add_node(a.volume, a.temp, a.insulation, a.capacity, a.position)
          => /\ ret' = Id(Len(nodes))
             /\ Len(nodes') = Len(nodes) + 1
             /\ get_node(nodes', ret'.id) =
                    Some([fluid |-> [volume |-> a.volume, temp |-> a.temp],
                          insulation |-> a.insulation, capacity |-> a.capacity,
                          position |-> a.position])
             /\ \A id \in 0 .. Len(nodes) - 1 : get_node(nodes', id) = get_node(nodes, id)
             /\ connections' = connections
             /\ solar_panels' = solar_panels
             /\ ~panicked']_vars

C3_Witness ==
    /\ call.op = "add_node"
    /\ ret = Id(1)
    /\ Len(nodes) = 2
    /\ Len(connections) >= 1
    /\ DOMAIN solar_panels # {}

\* C4: the node count and the connection count never decrease, tick changes
\* neither, and the connection at position k stays what it was.
C4_IndicesStable ==
    [][/\ Len(nodes') >= Len(nodes)
       /\ Len(connections') >= Len(connections)
       /\ (call'.op = "tick" => Len(nodes') = Len(nodes) /\ Len(connections') = Len(connections))
       /\ \A k \in 1 .. Len(connections) : connections'[k] = connections[k]]_vars

C4_Witness ==
    /\ ticks = 1
    /\ call.op = "connect_node" /\ call.in_range
    /\ Len(connections) = 2
    /\ Len(nodes) = 2
    /\ DOMAIN solar_panels # {}

\* C5: attach_solar_panel called with an id that is not a node index leaves
\* the panel map, the nodes and the connections as they were, and returns
\* normally.
C5_AttachOutOfRangeIsNoOp ==
    [][(call'.op = "attach_solar_panel" /\ ~call'.in_range)
        => /\ solar_panels' = solar_panels
           /\ nodes' = nodes
           /\ connections' = connections
           /\ ~panicked'
           /\ ret' = Unit]_vars

C5_Witness ==
    /\ call.op = "attach_solar_panel" /\ ~call.in_range
    /\ Len(nodes) = 1
    /\ DOMAIN solar_panels = {0}

\* C6: attach_solar_panel with a node index makes that node's panel the given
\* one, replacing a panel attached before, and leaves the panels of the other
\* nodes as they were.
C6_AttachOverwrites ==
    [][\A id \in Ids, panel \in Panels :
          (attach_solar_panel(id, panel) /\ id < Len(nodes))
          => /\ DOMAIN solar_panels' = DOMAIN solar_panels \cup {id}
             /\ solar_panels'[id] = panel
             /\ \A k \in DOMAIN solar_panels \ {id} : solar_panels'[k] = solar_panels[k]]_vars

C6_Witness ==
    /\ call.op = "attach_solar_panel" /\ call.in_range /\ call.replaced
    /\ DOMAIN solar_panels = {0, 1}
    /\ solar_panels[0] # solar_panels[1]

\* C7: every stored connection's input and output and every panel key is
\* smaller than the node count, and tick has not panicked on its indexing.
C7_IndicesInBounds ==
    /\ \A k \in 1 .. Len(connections) :
          connections[k].input < Len(nodes) /\ connections[k].output < Len(nodes)
    /\ \A key \in DOMAIN solar_panels : key < Len(nodes)
    /\ ~panicked

C7_Witness ==
    /\ call.op = "tick"
    /\ ticks = 1
    /\ Len(connections) = 2
    /\ DOMAIN solar_panels = {0, 1}

\* the triple the traversal is to yield for a connection
Triple(ns, connection) ==
    [flow_rate |-> connection.flow_rate,
     input |-> Ref(ns, connection.input),
     output |-> Ref(ns, connection.output)]

WithinBounds(ns, connection) == connection.input < Len(ns) /\ connection.output < Len(ns)

ValidConnections == SelectSeq(connections, LAMBDA c : WithinBounds(nodes, c))

\* C8: a traversal of connected_nodes() run to exhaustion has yielded, in
\* insertion order, one triple (flow_rate, input node, output node) for every
\* connection whose two indices are within bounds.
C8_YieldsEveryConnection ==
    (iter.live /\ iter.done)
    => collected = [k \in 1 .. Len(ValidConnections) |-> Triple(nodes, ValidConnections[k])]

\* C9: every triple yielded by connected_nodes() is that of a stored
\* connection whose input and output are below the node count: it carries the
\* connection's flow_rate and the nodes at exactly those two indices.
C9_YieldsOnlyStoredConnections ==
    /\ \A i \in 1 .. Len(collected) :
          \E k \in 1 .. Len(connections) :
              /\ WithinBounds(nodes, connections[k])
              /\ collected[i] = Triple(nodes, connections[k])
    /\ (call.op = "next" /\ ret.some)
       => \E k \in 1 .. Len(connections) :
              /\ WithinBounds(nodes, connections[k])
              /\ ret.val = Triple(nodes, connections[k])

C9_Witness ==
    /\ call.op = "next" /\ ret.some
    /\ Len(collected) = 1
    /\ Len(connections) = 2
    /\ connections[1] # connections[2]

\* C10: a traversal returns None after at most (connection count + 1) calls
\* of next and keeps returning None, the iterator's index never exceeds the
\* connection count, connected_nodes() starts from the first connection each
\* time it is called, and no step of a traversal changes the simulation.
C10_FiniteRestartableReadOnly ==
    [][/\ iter'.index <= Len(connections')
       /\ iter'.calls <= Len(connections') + 1
       /\ (iter'.calls = Len(connections') + 1 => iter'.done)
       /\ (iter.done /\ call'.op = "next" => ret' = None)
       /\ (call'.op = "connected_nodes" => iter'.index = 0 /\ iter'.calls = 0 /\ ~iter'.done)
       /\ (call'.op \in {"connected_nodes", "next", "drop"}
           => nodes' = nodes /\ connections' = connections /\ solar_panels' = solar_panels)]_vars

C10_Witness ==
    /\ call.op = "next"
    /\ iter.live /\ iter.done
    /\ ret = None
    /\ iter.index = 2
    /\ Len(connections) = 2
    /\ ticks = 1


\* number of passes or ticks run on one simulation
MaxRuns == 2

(* -------------------------- the heat-loss pass ------------------------- *)

\* nodes above, at and below the ambient temperature of Environments, with
\* no, partial and perfect insulation
HeatNodes ==
    { Node(Z(10), temp, insulation, Z(100), <<0, 0, 0>>) :
        temp \in { Z(100), Z(20), Z(10) },
        insulation \in { Z(0), R(1, 2), R(9, 10), Z(1) } }

\* dt given to a single pass: none, below one, one, above one
PassDts == { Z(0), R(1, 2), Z(1), Z(2) }

\* a simulation of one or two nodes, with or without a connection and a panel
InitHeat ==
    /\ nodes \in { <<a>> : a \in HeatNodes } \cup { <<a, b>> : a \in HeatNodes, b \in HeatNodes }
    /\ connections \in { << >>, << Connection(Z(1), 0, 0) >> }
    /\ solar_panels \in { << >>, Insert(<< >>, 0, [area |-> Z(1), efficiency |-> R(1, 2)]) }
    /\ iter = NoIter
    /\ collected = << >>
    /\ call = [op |-> "new"]
    /\ ret = Unit
    /\ panicked = FALSE
    /\ ticks = 0

\* one call of handle_heat_losses on the simulation as built; call keeps the
\* arguments and the nodes before the call
HeatLossesStep ==
    \E environment \in Environments, dt \in PassDts :
        /\ call.op = "new"
        /\ nodes' = handle_heat_losses(nodes, environment, dt)
        /\ call' = [op |-> "handle_heat_losses", before |-> nodes,
                    environment |-> environment, dt |-> dt]
        /\ ret' = Unit
        /\ UNCHANGED <<connections, solar_panels, iter, collected, panicked, ticks>>

SpecHeat == InitHeat /\ [][HeatLossesStep]_vars

\* dt * (1 - insulation), the fraction of the distance to ambient covered by a step
StepFraction(node, dt) == RMul(dt, RSub(Z(1), node.insulation))

\* C12 as stated: after handle_heat_losses with dt > 0 every node that was
\* above ambient is cooler, every node that was below is warmer, and a node
\* at ambient is unchanged.
C12_HeatLossMovesEveryNode ==
    (call.op = "handle_heat_losses" /\ RLt(Z(0), call.dt))
    => \A i \in 1 .. Len(nodes) :
          LET before == call.before[i].fluid.temp
              after == nodes[i].fluid.temp
              ambient == call.environment.ambient_temp
          IN  /\ RLt(ambient, before) => RLt(after, before)
              /\ RLt(before, ambient) => RLt(before, after)
              /\ before = ambient => after = before

\* C12 amended: after handle_heat_losses with dt > 0 every node with
\* insulation below 1 that was above ambient is cooler, every such node that
\* was below is warmer, a node at ambient is unchanged, and a node with
\* insulation 1 keeps its temperature.
C12_HeatLossMovesUninsulated ==
    (call.op = "handle_heat_losses" /\ RLt(Z(0), call.dt))
    => \A i \in 1 .. Len(nodes) :
          LET before == call.before[i].fluid.temp
              after == nodes[i].fluid.temp
              ambient == call.environment.ambient_temp
              insulation == call.before[i].insulation
          IN  /\ (RLt(insulation, Z(1)) /\ RLt(ambient, before)) => RLt(after, before)
              /\ (RLt(insulation, Z(1)) /\ RLt(before, ambient)) => RLt(before, after)
              /\ before = ambient => after = before
              /\ insulation = Z(1) => after = before

C12_Witness ==
    /\ call.op = "handle_heat_losses" /\ call.dt = R(1, 2)
    /\ Len(nodes) = 2
    /\ call.before[1].insulation = R(9, 10) /\ RLt(nodes[1].fluid.temp, call.before[1].fluid.temp)
    /\ call.before[2].insulation = Z(1) /\ call.before[2].fluid.temp = Z(100)
    /\ nodes[2].fluid.temp = Z(100)

\* C13: handle_heat_losses changes node temperatures only: the volume,
\* capacity, insulation and position of every node, the connections and the
\* panel map are the same before and after the pass.
C13_HeatLossFrame ==
    [][(call'.op = "handle_heat_losses")
        => /\ Len(nodes') = Len(nodes)
           /\ \A i \in 1 .. Len(nodes) :
                 /\ nodes'[i].fluid.volume = nodes[i].fluid.volume
                 /\ nodes'[i].capacity = nodes[i].capacity
                 /\ nodes'[i].insulation = nodes[i].insulation
                 /\ nodes'[i].position = nodes[i].position
           /\ connections' = connections
           /\ solar_panels' = solar_panels]_vars

C13_Witness ==
    /\ call.op = "handle_heat_losses"
    /\ nodes[1].fluid.temp # call.before[1].fluid.temp
    /\ nodes[1].fluid.volume = Z(10)
    /\ connections # << >>
    /\ DOMAIN solar_panels = {0}

\* C14: with 0 <= dt*(1-insulation) <= 1 the step leaves the temperature on
\* the side of ambient it was on, or at ambient; with dt*(1-insulation) > 1
\* and a temperature other than ambient it ends strictly on the other side.
C14_HeatLossOvershoot ==
    (call.op = "handle_heat_losses")
    => \A i \in 1 .. Len(nodes) :
          LET before == call.before[i].fluid.temp
              after == nodes[i].fluid.temp
              ambient == call.environment.ambient_temp
              k == StepFraction(call.before[i], call.dt)
          IN  /\ (RLe(Z(0), k) /\ RLe(k, Z(1)))
                 => /\ RLe(ambient, before) => RLe(ambient, after)
                    /\ RLe(before, ambient) => RLe(after, ambient)
              /\ (RLt(Z(1), k) /\ before # ambient)
                 => /\ RLt(ambient, before) => RLt(after, ambient)
                    /\ RLt(before, ambient) => RLt(ambient, after)

C14_Witness ==
    /\ call.op = "handle_heat_losses" /\ call.dt = Z(2)
    /\ Len(nodes) = 2
    /\ call.before[1].insulation = Z(0) /\ call.before[1].fluid.temp = Z(100)
    /\ RLt(nodes[1].fluid.temp, call.environment.ambient_temp)
    /\ call.before[2].insulation = R(1, 2) /\ call.before[2].fluid.temp = Z(10)
    /\ nodes[2].fluid.temp = call.environment.ambient_temp

(* ---------------------------- the solar pass --------------------------- *)

\* empty and filled nodes
SolarNodes ==
    { Node(volume, Z(50), Z(1), Z(100), <<0, 0, 0>>) : volume \in { Z(0), Z(10) } }

\* sun below, on and above the horizon; clear, half and full cloud cover
SolarEnvs ==
    { [sun_angle |-> angle, sun_irradiance |-> Z(2093), cloud_cover |-> cloud,
       ambient_temp |-> Z(20)] :
        angle \in SunAngles, cloud \in { Z(0), R(1, 2), Z(1) } }

\* the panel maps attach_solar_panel can build over n nodes
PanelMaps(n) ==
    UNION { [keys -> Panels] : keys \in SUBSET (0 .. n - 1) }

InitSolar ==
    /\ nodes \in { <<a>> : a \in SolarNodes } \cup { <<a, b>> : a \in SolarNodes, b \in SolarNodes }
    /\ connections = << >>
    /\ solar_panels \in PanelMaps(Len(nodes))
    /\ iter = NoIter
    /\ collected = << >>
    /\ call = [op |-> "new"]
    /\ ret = Unit
    /\ panicked = FALSE
    /\ ticks = 0

\* one call of handle_solar_panels, the map iterated in one of its orders
SolarPanelsStep ==
    \E environment \in SolarEnvs, dt \in PassDts, order \in Orders(solar_panels) :
        LET result == handle_solar_panels(nodes, solar_panels, order, environment, dt)
        IN  /\ call.op = "new"
            /\ nodes' = result.nodes
            /\ panicked' = result.panicked
            /\ call' = [op |-> "handle_solar_panels", before |-> nodes,
                        environment |-> environment, dt |-> dt]
            /\ ret' = Unit
            /\ UNCHANGED <<connections, solar_panels, iter, collected, ticks>>

SpecSolar == InitSolar /\ [][SolarPanelsStep]_vars

\* C15: a node with volume exactly 0 and an attached panel has the same
\* temperature before and after handle_solar_panels, for every environment
\* and dt.
C15_ZeroVolumeSkipped ==
    (call.op = "handle_solar_panels")
    => \A key \in DOMAIN solar_panels :
          NodeAt(call.before, key).fluid.volume = Z(0)
          => NodeAt(nodes, key).fluid.temp = NodeAt(call.before, key).fluid.temp

C15_Witness ==
    /\ call.op = "handle_solar_panels"
    /\ call.environment.sun_angle = "pi/2" /\ call.environment.cloud_cover = Z(0)
    /\ call.dt = Z(1)
    /\ DOMAIN solar_panels = {0, 1}
    /\ NodeAt(call.before, 0).fluid.volume = Z(0)
    /\ NodeAt(nodes, 0).fluid.temp = Z(50)
    /\ RLt(Z(50), NodeAt(nodes, 1).fluid.temp)

\* C16: when the sine of the sun angle is zero or negative the solar pass
\* leaves every node as it was, and with the non-negative inputs of this
\* specification it never lowers a temperature.
C16_SunBelowHorizonNeverCools ==
    (call.op = "handle_solar_panels")
    => /\ RLe(Sin(call.environment.sun_angle), Z(0)) => nodes = call.before
       /\ \A i \in 1 .. Len(nodes) :
             RLe(call.before[i].fluid.temp, nodes[i].fluid.temp)

C16_Witness ==
    /\ call.op = "handle_solar_panels"
    /\ call.environment.sun_angle = "-pi/2" /\ call.environment.cloud_cover = Z(0)
    /\ call.dt = Z(2)
    /\ DOMAIN solar_panels = {0}
    /\ NodeAt(call.before, 0).fluid.volume = Z(10)
    /\ nodes = call.before

\* C17: the result of handle_solar_panels is the same for every order in
\* which the panel map can be iterated.
C17_PanelOrderIrrelevant ==
    (call.op = "handle_solar_panels")
    => \A order \in Orders(solar_panels) :
          handle_solar_panels(call.before, solar_panels, order,
                              call.environment, call.dt).nodes = nodes

C17_Witness ==
    /\ call.op = "handle_solar_panels"
    /\ call.environment.sun_angle = "pi/2" /\ call.environment.cloud_cover = R(1, 2)
    /\ call.dt = R(1, 2)
    /\ DOMAIN solar_panels = {0, 1}
    /\ solar_panels[0] # solar_panels[1]
    /\ RLt(Z(50), NodeAt(nodes, 0).fluid.temp)
    /\ RLt(Z(50), NodeAt(nodes, 1).fluid.temp)
    /\ NodeAt(nodes, 0).fluid.temp # NodeAt(nodes, 1).fluid.temp

(* ------------------------ fluid transfer and tick ---------------------- *)

\* a small warm node, an empty node and a nearly full node
FlowNodes ==
    { Node(Z(2), Z(100), R(1, 2), Z(10), <<0, 0, 0>>),
      Node(Z(0), Z(20), Z(1), Z(10), <<1, 0, 0>>),
      Node(Z(9), Z(60), Z(1), Z(10), <<2, 0, 0>>) }

\* the connections connect_node accepts between two nodes, flow rate as in
\* ConnectInputs
FlowConnections == { Connection(Z(1), 0, 1), Connection(Z(2), 1, 0) }

\* two nodes, up to two connections between them (a chain or a cycle, the
\* same connection twice included), node 0 with or without a panel
InitFlow ==
    /\ nodes \in { <<a, b>> : a \in FlowNodes, b \in FlowNodes }
    /\ connections \in { << >> } \cup { <<c>> : c \in FlowConnections }
                          \cup { <<c, d>> : c \in FlowConnections, d \in FlowConnections }
    /\ solar_panels \in { << >>, Insert(<< >>, 0, [area |-> Z(1), efficiency |-> R(1, 2)]) }
    /\ iter = NoIter
    /\ collected = << >>
    /\ call = [op |-> "new"]
    /\ ret = Unit
    /\ panicked = FALSE
    /\ ticks = 0

\* one call of handle_fluid_transfer
FluidTransferStep ==
    \E dt \in PassDts :
        /\ ticks < MaxRuns
        /\ nodes' = handle_fluid_transfer(nodes, connections, dt)
        /\ ticks' = ticks + 1
        /\ call' = [op |-> "handle_fluid_transfer", before |-> nodes, dt |-> dt]
        /\ ret' = Unit
        /\ UNCHANGED <<connections, solar_panels, iter, collected, panicked>>

SpecTransfer == InitFlow /\ [][FluidTransferStep]_vars

\* one call of tick; call keeps the arguments and the nodes before the call
TickRunStep ==
    \E environment \in Environments, dt \in PassDts, order \in Orders(solar_panels) :
        LET result == TickResult(nodes, connections, solar_panels, order, environment, dt)
        IN  /\ ticks < MaxRuns
            /\ ~panicked
            /\ nodes' = result.nodes
            /\ panicked' = result.panicked
            /\ ticks' = ticks + 1
            /\ call' = [op |-> "tick", before |-> nodes,
                        environment |-> environment, dt |-> dt, order |-> order]
            /\ ret' = Unit
            /\ UNCHANGED <<connections, solar_panels, iter, collected>>

SpecTicks == InitFlow /\ [][TickRunStep]_vars

VolumesWithinCapacity(ns) ==
    \A i \in 1 .. Len(ns) :
        RLe(Z(0), ns[i].fluid.volume) /\ RLe(ns[i].fluid.volume, ns[i].capacity)

RECURSIVE TotalVolume(_)
TotalVolume(ns) ==
    IF ns = << >> THEN Z(0) ELSE RAdd(Head(ns).fluid.volume, TotalVolume(Tail(ns)))

\* C11: the nodes after tick are those of the heat-loss pass, then the solar
\* pass on its result, then the fluid transfer on the result of that, all
\* with the arguments of the tick.
C11_TickPassOrder ==
    (call.op = "tick")
    => LET afterLoss == handle_heat_losses(call.before, call.environment, call.dt)
           afterSolar == handle_solar_panels(afterLoss, solar_panels, call.order,
                                             call.environment, call.dt).nodes
       IN  nodes = handle_fluid_transfer(afterSolar, connections, call.dt)

\* node 0 at 100 cools to 80, its panel heats it to 285/2, and the fluid
\* moved into the empty node 1 arrives at that temperature
C11_Witness ==
    /\ call.op = "tick" /\ ticks = 1
    /\ call.before = << Node(Z(2), Z(100), R(1, 2), Z(10), <<0, 0, 0>>),
                        Node(Z(0), Z(20), Z(1), Z(10), <<1, 0, 0>>) >>
    /\ connections = << Connection(Z(1), 0, 1) >>
    /\ DOMAIN solar_panels = {0}
    /\ call.environment.sun_angle = "pi/2" /\ call.dt = R(1, 2)
    /\ NodeAt(nodes, 0).fluid.temp = R(285, 2)
    /\ NodeAt(nodes, 1).fluid = [temp |-> R(285, 2), volume |-> R(1, 2)]

\* C18: after handle_fluid_transfer with dt >= 0 and non-negative flow
\* rates on nodes that all had 0 <= volume <= capacity, every connection's
\* output node has volume <= capacity and its input node has volume >= 0.
C18_TransferBounds ==
    (/\ call.op = "handle_fluid_transfer"
     /\ RLe(Z(0), call.dt)
     /\ VolumesWithinCapacity(call.before))
    => \A k \in 1 .. Len(connections) :
          /\ RLe(NodeAt(nodes, connections[k].output).fluid.volume,
                 NodeAt(nodes, connections[k].output).capacity)
          /\ RLe(Z(0), NodeAt(nodes, connections[k].input).fluid.volume)

\* C19: in every state reached by ticks from nodes added with
\* 0 <= volume <= capacity, every node has 0 <= volume <= capacity.
C19_VolumeInvariant == VolumesWithinCapacity(nodes)

\* C20: in the fluid transfer of a tick each connection takes from its input
\* node exactly what it adds to its output node and leaves the other
\* volumes alone, and the sum of the node volumes after the tick is the sum
\* before it.
C20_VolumeConserved ==
    (call.op = "tick")
    => LET start == handle_solar_panels(
                        handle_heat_losses(call.before, call.environment, call.dt),
                        solar_panels, call.order, call.environment, call.dt).nodes
           At(k) == handle_fluid_transfer(start, SubSeq(connections, 1, k), call.dt)
       IN  /\ TotalVolume(start) = TotalVolume(call.before)
           /\ nodes = At(Len(connections))
           /\ \A k \in 1 .. Len(connections) :
                 LET c == connections[k]
                     pre == At(k - 1)
                     post == At(k)
                 IN  /\ RSub(NodeAt(pre, c.input).fluid.volume, NodeAt(post, c.input).fluid.volume)
                          = RSub(NodeAt(post, c.output).fluid.volume, NodeAt(pre, c.output).fluid.volume)
                     /\ \A id \in 0 .. Len(pre) - 1 :
                           id \notin { c.input, c.output }
                           => NodeAt(post, id).fluid.volume = NodeAt(pre, id).fluid.volume
           /\ TotalVolume(nodes) = TotalVolume(call.before)

C20_Witness ==
    /\ call.op = "tick" /\ call.dt = Z(1)
    /\ Len(connections) = 2 /\ connections[1] # connections[2]
    /\ NodeAt(call.before, 0).fluid.volume = Z(2)
    /\ NodeAt(call.before, 1).fluid.volume = Z(9)
    /\ NodeAt(nodes, 0).fluid.volume # Z(2)
    /\ TotalVolume(nodes) = Z(11)

(* ------------------- one connection of the transfer pass --------------- *)

\* the connection is not skipped by the pass over ns
Processed(ns, connection) ==
    /\ contains_node(ns, connection.input)
    /\ contains_node(ns, connection.output)
    /\ connection.input # connection.output

\* the nodes once the first k connections of conns have been handled
TransferAt(start, conns, k, dt) == handle_fluid_transfer(start, SubSeq(conns, 1, k), dt)

\* what connection k takes from its input node
Moved(start, conns, k, dt) ==
    RSub(NodeAt(TransferAt(start, conns, k - 1, dt), conns[k].input).fluid.volume,
         NodeAt(TransferAt(start, conns, k, dt), conns[k].input).fluid.volume)

\* C21: with a single connection a -> b, a # b, flow_rate > 0, dt > 0,
\* a's volume > 0 and b's volume below its capacity, handle_fluid_transfer
\* lowers a's volume, raises b's volume, and moves at most flow_rate * dt.
C21_SingleConnectionMoves ==
    (/\ call.op = "handle_fluid_transfer"
     /\ Len(connections) = 1
     /\ connections[1].input # connections[1].output
     /\ RLt(Z(0), connections[1].flow_rate)
     /\ RLt(Z(0), call.dt)
     /\ RLt(Z(0), NodeAt(call.before, connections[1].input).fluid.volume)
     /\ RLt(NodeAt(call.before, connections[1].output).fluid.volume,
            NodeAt(call.before, connections[1].output).capacity))
    => LET a == connections[1].input
           b == connections[1].output
       IN  /\ RLt(NodeAt(nodes, a).fluid.volume, NodeAt(call.before, a).fluid.volume)
           /\ RLt(NodeAt(call.before, b).fluid.volume, NodeAt(nodes, b).fluid.volume)
           /\ RLe(RSub(NodeAt(call.before, a).fluid.volume, NodeAt(nodes, a).fluid.volume),
                  RMul(connections[1].flow_rate, call.dt))

\* node 0 holds 2 and gives 1/2 at flow rate 1 over dt 1/2
C21_Witness ==
    /\ call.op = "handle_fluid_transfer" /\ call.dt = R(1, 2)
    /\ connections = << Connection(Z(1), 0, 1) >>
    /\ NodeAt(call.before, 0).fluid.volume = Z(2)
    /\ NodeAt(call.before, 1).fluid.volume = Z(9)
    /\ NodeAt(nodes, 0).fluid.volume = R(3, 2)
    /\ NodeAt(nodes, 1).fluid.volume = R(19, 2)

\* C22: when a connection moves a positive amount into an output node that
\* holds a positive volume and whose temperature differs from the input
\* node's, the output node's temperature afterwards is strictly between the
\* two.
C22_MixedTemperatureBetween ==
    (call.op = "handle_fluid_transfer")
    => \A k \in 1 .. Len(connections) :
          LET c == connections[k]
              pre == TransferAt(call.before, connections, k - 1, call.dt)
              post == TransferAt(call.before, connections, k, call.dt)
              tin == NodeAt(pre, c.input).fluid.temp
              tout == NodeAt(pre, c.output).fluid.temp
              after == NodeAt(post, c.output).fluid.temp
          IN  (/\ Processed(pre, c)
               /\ RLt(Z(0), Moved(call.before, connections, k, call.dt))
               /\ RLt(Z(0), NodeAt(pre, c.output).fluid.volume)
               /\ tin # tout)
              => /\ RLt(RMin(tin, tout), after)
                 /\ RLt(after, RMax(tin, tout))

\* 1 unit at 100 into 9 units at 60 gives 10 units at 64
C22_Witness ==
    /\ call.op = "handle_fluid_transfer" /\ call.dt = Z(1) /\ ticks = 1
    /\ connections = << Connection(Z(1), 0, 1) >>
    /\ NodeAt(call.before, 0).fluid = [temp |-> Z(100), volume |-> Z(2)]
    /\ NodeAt(call.before, 1).fluid = [temp |-> Z(60), volume |-> Z(9)]
    /\ NodeAt(nodes, 1).fluid = [temp |-> Z(64), volume |-> Z(10)]

\* C27: every processed connection moves exactly
\* min(min(flow_rate, input volume) * dt, output capacity - output volume),
\* the volumes being those at the moment the connection is processed.
C27_AmountFormula ==
    (call.op = "handle_fluid_transfer")
    => /\ nodes = TransferAt(call.before, connections, Len(connections), call.dt)
       /\ \A k \in 1 .. Len(connections) :
             LET c == connections[k]
                 pre == TransferAt(call.before, connections, k - 1, call.dt)
                 post == TransferAt(call.before, connections, k, call.dt)
                 amount == RMin(RMul(RMin(c.flow_rate, NodeAt(pre, c.input).fluid.volume), call.dt),
                                RSub(NodeAt(pre, c.output).capacity,
                                     NodeAt(pre, c.output).fluid.volume))
             IN  Processed(pre, c)
                 => /\ Moved(call.before, connections, k, call.dt) = amount
                    /\ RSub(NodeAt(post, c.output).fluid.volume,
                            NodeAt(pre, c.output).fluid.volume) = amount

\* dt 2: node 1 holds 2 and gives min(2, 2) * 2 = 4; then node 0, holding 4,
\* gives min(1, 4) * 2 = 2 back
C27_Witness ==
    /\ call.op = "handle_fluid_transfer" /\ call.dt = Z(2) /\ ticks = 1
    /\ connections = << Connection(Z(2), 1, 0), Connection(Z(1), 0, 1) >>
    /\ NodeAt(call.before, 0).fluid.volume = Z(0)
    /\ NodeAt(call.before, 1).fluid.volume = Z(2)
    /\ NodeAt(nodes, 0).fluid.volume = Z(2)
    /\ NodeAt(nodes, 1).fluid.volume = Z(0)

(* --------------------- connection graphs of three nodes ---------------- *)

\* a chain 0 -> 1 -> 2, the back edge 1 -> 0 and two self-loops, flow rate
\* as in ConnectInputs
GraphConnections ==
    { Connection(Z(1), 0, 1), Connection(Z(2), 1, 2), Connection(Z(2), 1, 0),
      Connection(Z(1), 0, 0), Connection(Z(3), 2, 2) }

\* three nodes, up to two connections, node 0 with or without a panel
InitGraph ==
    /\ nodes \in { <<a, b, c>> : a \in FlowNodes, b \in FlowNodes, c \in FlowNodes }
    /\ connections \in { << >> } \cup { <<c>> : c \in GraphConnections }
                          \cup { <<c, d>> : c \in GraphConnections, d \in GraphConnections }
    /\ solar_panels \in { << >>, Insert(<< >>, 0, [area |-> Z(1), efficiency |-> R(1, 2)]) }
    /\ iter = NoIter
    /\ collected = << >>
    /\ call = [op |-> "new"]
    /\ ret = Unit
    /\ panicked = FALSE
    /\ ticks = 0

\* one call of handle_fluid_transfer on the simulation as built
TransferOnceStep ==
    \E dt \in PassDts :
        /\ call.op = "new"
        /\ nodes' = handle_fluid_transfer(nodes, connections, dt)
        /\ ticks' = ticks + 1
        /\ call' = [op |-> "handle_fluid_transfer", before |-> nodes, dt |-> dt]
        /\ ret' = Unit
        /\ UNCHANGED <<connections, solar_panels, iter, collected, panicked>>

\* one call of tick on the simulation as built
TickOnceStep ==
    \E environment \in Environments, dt \in PassDts, order \in Orders(solar_panels) :
        LET result == TickResult(nodes, connections, solar_panels, order, environment, dt)
        IN  /\ call.op = "new"
            /\ nodes' = result.nodes
            /\ panicked' = result.panicked
            /\ ticks' = ticks + 1
            /\ call' = [op |-> "tick", before |-> nodes,
                        environment |-> environment, dt |-> dt, order |-> order]
            /\ ret' = Unit
            /\ UNCHANGED <<connections, solar_panels, iter, collected>>

NextGraph == TransferOnceStep \/ TickOnceStep

SpecGraph == InitGraph /\ [][NextGraph]_vars

\* conns with connection c inserted after its first p elements
InsertAt(conns, p, c) == SubSeq(conns, 1, p) \o <<c>> \o SubSeq(conns, p + 1, Len(conns))

\* self-loops connect_node accepts on n nodes
SelfLoops(n) == { Connection(rate, id, id) : rate \in { Z(1), Z(3) }, id \in 0 .. n - 1 }

\* C23: handle_fluid_transfer on a simulation whose connections are all
\* self-loops leaves the nodes as they were, and the result of a tick is the
\* same with a self-loop added anywhere in the connection sequence.
C23_SelfLoopSkipped ==
    /\ (/\ call.op = "handle_fluid_transfer"
        /\ \A k \in 1 .. Len(connections) : connections[k].input = connections[k].output)
       => nodes = call.before
    /\ (call.op = "tick")
       => \A loop \in SelfLoops(Len(nodes)), p \in 0 .. Len(connections) :
             TickResult(call.before, InsertAt(connections, p, loop), solar_panels,
                        call.order, call.environment, call.dt).nodes = nodes

C23_Witness ==
    /\ call.op = "handle_fluid_transfer" /\ call.dt = Z(2)
    /\ connections = << Connection(Z(1), 0, 0), Connection(Z(3), 2, 2) >>
    /\ NodeAt(call.before, 0).fluid = [temp |-> Z(20), volume |-> Z(0)]
    /\ NodeAt(call.before, 2).fluid = [temp |-> Z(60), volume |-> Z(9)]
    /\ nodes = call.before

\* two connections have an endpoint in common
ShareNode(c, d) == {c.input, c.output} \cap {d.input, d.output} # {}

\* C24: among the simulations with as many nodes as this one there are
\* nodes and two connections sharing a node for which handle_fluid_transfer
\* gives different nodes when the two connections are inserted in the
\* opposite order.
C24_OrderMatters ==
    \E a \in FlowNodes, b \in FlowNodes, c1 \in GraphConnections, c2 \in GraphConnections :
        LET ns == [i \in 1 .. Len(nodes) |-> IF i = 2 THEN b ELSE a]
        IN  /\ c1 # c2
            /\ ShareNode(c1, c2)
            /\ handle_fluid_transfer(ns, <<c1, c2>>, Z(1)) # handle_fluid_transfer(ns, <<c2, c1>>, Z(1))

\* a pass has run on two connections sharing a node, and the opposite
\* insertion order would have left other nodes
C24_Witness ==
    /\ call.op = "handle_fluid_transfer"
    /\ Len(connections) = 2
    /\ connections[1] # connections[2]
    /\ ShareNode(connections[1], connections[2])
    /\ nodes # handle_fluid_transfer(call.before, <<connections[2], connections[1]>>, call.dt)

\* the nodes after the connections of conns were handled one after the
\* other, first inserted first
RECURSIVE InInsertionOrder(_, _, _)
InInsertionOrder(start, conns, dt) ==
    IF conns = << >>
    THEN start
    ELSE TransferOne(InInsertionOrder(start, SubSeq(conns, 1, Len(conns) - 1), dt),
                     conns[Len(conns)], dt)

\* C28: the pass handles the connections in insertion order, each on the
\* nodes the earlier ones left: for a chain a -> b, b -> c the amount taken
\* from b and the temperature it carries are those of b after it received
\* from a.
C28_InsertionOrder ==
    (call.op = "handle_fluid_transfer")
    => /\ nodes = InInsertionOrder(call.before, connections, call.dt)
       /\ (/\ Len(connections) = 2
           /\ connections[1].output = connections[2].input
           /\ Processed(call.before, connections[1])
           /\ Processed(call.before, connections[2])
           /\ connections[2].output # connections[1].input)
          => LET b == connections[1].output
                 c == connections[2].output
                 mid == TransferOne(call.before, connections[1], call.dt)
                 amount == RMin(RMul(RMin(connections[2].flow_rate, NodeAt(mid, b).fluid.volume),
                                     call.dt),
                                RSub(NodeAt(mid, c).capacity, NodeAt(mid, c).fluid.volume))
             IN  /\ NodeAt(nodes, b).fluid.volume = RSub(NodeAt(mid, b).fluid.volume, amount)
                 /\ NodeAt(nodes, c).fluid
                      = FluidAdd(NodeAt(call.before, c).fluid,
                                 [temp |-> NodeAt(mid, b).fluid.temp, volume |-> amount])

\* node 1 is empty, receives 1 unit at 100 from node 0 and passes it on to
\* node 2, which goes from 9 units at 60 to 10 units at 64
C28_Witness ==
    /\ call.op = "handle_fluid_transfer" /\ call.dt = Z(1)
    /\ connections = << Connection(Z(1), 0, 1), Connection(Z(2), 1, 2) >>
    /\ NodeAt(call.before, 0).fluid = [temp |-> Z(100), volume |-> Z(2)]
    /\ NodeAt(call.before, 1).fluid = [temp |-> Z(20), volume |-> Z(0)]
    /\ NodeAt(call.before, 2).fluid = [temp |-> Z(60), volume |-> Z(9)]
    /\ NodeAt(nodes, 1).fluid = [temp |-> Z(100), volume |-> Z(0)]
    /\ NodeAt(nodes, 2).fluid = [temp |-> Z(64), volume |-> Z(10)]

\* C29: tick and the transfer pass keep every node's capacity, insulation
\* and position, the connections and the panel map; the transfer pass keeps
\* the temperature of every node that is the output of no processed
\* connection, and keeps whole every node that no connection names.
C29_TickFrame ==
    [][/\ (call'.op \in { "tick", "handle_fluid_transfer" })
          => /\ Len(nodes') = Len(nodes)
             /\ \A i \in 1 .. Len(nodes) :
                   /\ nodes'[i].capacity = nodes[i].capacity
                   /\ nodes'[i].insulation = nodes[i].insulation
                   /\ nodes'[i].position = nodes[i].position
             /\ connections' = connections
             /\ solar_panels' = solar_panels
       /\ (call'.op = "handle_fluid_transfer")
          => \A id \in 0 .. Len(nodes) - 1 :
                /\ (\A k \in 1 .. Len(connections) :
                       ~(Processed(nodes, connections[k]) /\ connections[k].output = id))
                   => NodeAt(nodes', id).fluid.temp = NodeAt(nodes, id).fluid.temp
                /\ (\A k \in 1 .. Len(connections) :
                       id \notin { connections[k].input, connections[k].output })
                   => NodeAt(nodes', id) = NodeAt(nodes, id)]_vars

\* node 1 is emptied into node 2 and keeps its temperature; node 0 is named
\* by no connection
C29_Witness ==
    /\ call.op = "handle_fluid_transfer" /\ call.dt = Z(1)
    /\ connections = << Connection(Z(2), 1, 2) >>
    /\ NodeAt(call.before, 1).fluid = [temp |-> Z(100), volume |-> Z(2)]
    /\ NodeAt(call.before, 2).fluid = [temp |-> Z(20), volume |-> Z(0)]
    /\ NodeAt(nodes, 1).fluid = [temp |-> Z(100), volume |-> Z(0)]
    /\ NodeAt(nodes, 2).fluid = [temp |-> Z(100), volume |-> Z(2)]
    /\ NodeAt(nodes, 0) = NodeAt(call.before, 0)

(* --------------------------- Fluid + and += ---------------------------- *)

\* fluids of negative, zero and positive volume at two temperatures
Fluids ==
    { [volume |-> volume, temp |-> temp] :
        volume \in { Z(-1), Z(0), Z(1), Z(2) }, temp \in { Z(30), Z(90) } }

\* ret holds a Fluid value
InitFluid ==
    /\ ret \in { Some(fluid) : fluid \in Fluids }
    /\ call = [op |-> "new"]
    /\ nodes = << >>
    /\ connections = << >>
    /\ solar_panels = << >>
    /\ iter = NoIter
    /\ collected = << >>
    /\ panicked = FALSE
    /\ ticks = 0

\* fluid += rhs on the value held; call keeps both operands
FluidAddAssignStep ==
    \E rhs \in Fluids :
        /\ ticks < MaxRuns
        /\ ret' = Some(FluidAdd(ret.val, rhs))
        /\ call' = [op |-> "add_assign", self |-> ret.val, rhs |-> rhs]
        /\ ticks' = ticks + 1
        /\ UNCHANGED <<nodes, connections, solar_panels, iter, collected, panicked>>

SpecFluid == InitFluid /\ [][FluidAddAssignStep]_vars

\* C25: a + b has volume a.volume + b.volume and temperature
\* a.temp * a.volume / volume + b.temp * b.volume / volume, or 0 when the
\* volume is exactly 0; no quotient has a zero divisor.
C25_FluidAdd ==
    (call.op = "add_assign")
    => LET a == call.self
           b == call.rhs
           volume == RAdd(a.volume, b.volume)
       IN  /\ ret.val.volume = volume
           /\ volume = Z(0) => ret.val.temp = Z(0)
           /\ volume # Z(0)
              => ret.val.temp = RAdd(RMul(a.temp, RDiv(a.volume, volume)),
                                       RMul(b.temp, RDiv(b.volume, volume)))
           /\ ret.val.temp.d > 0

\* test_fluid_add: 1 unit at 30 plus 2 units at 90 is 3 units at 70
C25_Witness ==
    /\ call.op = "add_assign"
    /\ call.self = [volume |-> Z(1), temp |-> Z(30)]
    /\ call.rhs = [volume |-> Z(2), temp |-> Z(90)]
    /\ ret.val = [volume |-> Z(3), temp |-> Z(70)]

\* C26: when the resulting volume is not 0, (a+b).volume * (a+b).temp is
\* a.volume * a.temp + b.volume * b.temp; a + b is b + a; and (a+b)+c has the
\* volume of a+(b+c).
C26_FluidAddAlgebra ==
    (call.op = "add_assign")
    => LET a == call.self
           b == call.rhs
       IN  /\ ret.val.volume # Z(0)
              => RMul(ret.val.volume, ret.val.temp)
                   = RAdd(RMul(a.volume, a.temp), RMul(b.volume, b.temp))
           /\ ret.val = FluidAdd(b, a)
           /\ \A c \in Fluids :
                 FluidAdd(ret.val, c).volume = FluidAdd(a, FluidAdd(b, c)).volume

\* a second combination, of a mixture with a fluid of another temperature
C26_Witness ==
    /\ call.op = "add_assign" /\ ticks = 2
    /\ call.self = [volume |-> Z(3), temp |-> Z(70)]
    /\ call.rhs = [volume |-> Z(2), temp |-> Z(30)]
    /\ ret.val = [volume |-> Z(5), temp |-> Z(54)]

(* ------------------------------ tick(dt = 0) --------------------------- *)

\* C30: a tick with dt = 0 on nodes with 0 <= volume <= capacity keeps every
\* volume and the temperature of every node whose volume is not 0; an empty
\* node that is the output of a processed connection ends at temperature 0.
C30_ZeroDtTick ==
    (/\ call.op = "tick"
     /\ call.dt = Z(0)
     /\ VolumesWithinCapacity(call.before))
    => \A id \in 0 .. Len(nodes) - 1 :
          /\ NodeAt(nodes, id).fluid.volume = NodeAt(call.before, id).fluid.volume
          /\ NodeAt(call.before, id).fluid.volume # Z(0)
             => NodeAt(nodes, id).fluid.temp = NodeAt(call.before, id).fluid.temp
          /\ (/\ NodeAt(call.before, id).fluid.volume = Z(0)
              /\ \E k \in 1 .. Len(connections) :
                    Processed(call.before, connections[k]) /\ connections[k].output = id)
             => NodeAt(nodes, id).fluid.temp = Z(0)

\* the empty node 1 was at 20 and is the output of 0 -> 1
C30_Witness ==
    /\ call.op = "tick" /\ call.dt = Z(0) /\ ticks = 1
    /\ connections = << Connection(Z(1), 0, 1) >>
    /\ NodeAt(call.before, 0).fluid = [temp |-> Z(100), volume |-> Z(2)]
    /\ NodeAt(call.before, 1).fluid = [temp |-> Z(20), volume |-> Z(0)]
    /\ NodeAt(nodes, 0).fluid = [temp |-> Z(100), volume |-> Z(2)]
    /\ NodeAt(nodes, 1).fluid = [temp |-> Z(0), volume |-> Z(0)]

====
